---- MODULE Spec2Model ----
(***************************************************************************)
(* The ledger engine of blockchain-intro: the Blockchain class and the     *)
(* Flask handlers of its three variants (basic_block, client_mining,       *)
(* communication).                                                         *)
(*                                                                         *)
(* JSON values are tagged tuples: <<"int", n>>, <<"str", chars>> and       *)
(* <<"null">>, so that 0 and "0" differ as they do for json.dumps.         *)
(* Byte strings are sequences of small naturals (tokens).  Python lists    *)
(* are objects on a heap, referenced by their position in it: two          *)
(* references to one list see each other's appends.                        *)
(***************************************************************************)
EXTENDS Integers, Sequences, FiniteSets, TLC

\* ---------------------------------------------------------------- bounds
NumThreads == 2
MaxChain == 3
MaxQueued == 2
MaxProof == 40

\* ------------------------------------------------------------ JSON values
IntV(n) == <<"int", n>>
StrV(chars) == <<"str", chars>>
NullV == <<"null">>

\* One token per structural character or key name of the serialization;
\* 0..15 are left to the decimal digits and the digest's characters.
Tok(c) ==
    CASE c = "{" -> 16
      [] c = "}" -> 17
      [] c = "[" -> 18
      [] c = "]" -> 19
      [] c = "quote" -> 20
      [] c = "null" -> 21
      [] c = "None" -> 22
      [] c = "b'" -> 23
      [] c = "'" -> 24
      [] c = "amount" -> 25
      [] c = "index" -> 26
      [] c = "previous_hash" -> 27
      [] c = "proof" -> 28
      [] c = "recipient" -> 29
      [] c = "sender" -> 30
      [] c = "timestamp" -> 31
      [] c = "transactions" -> 32
      [] c = "alice" -> 33
      [] c = "bob" -> 34
      [] c = "node" -> 35

\* str(n) of a non-negative int: its decimal digits.
RECURSIVE Digits(_)
Digits(n) == IF n < 10 THEN <<n>> ELSE Digits(n \div 10) \o <<n % 10>>

\* json.dumps of a scalar: an int bare, a str between quotes, None as null.
JsonScalar(v) ==
    CASE v[1] = "int" -> Digits(v[2])
      [] v[1] = "str" -> <<Tok("quote")>> \o v[2] \o <<Tok("quote")>>
      [] OTHER -> <<Tok("null")>>

\* The f-string conversion '{proof}': str() of the value, a str without quotes.
FormatValue(v) ==
    CASE v[1] = "int" -> Digits(v[2])
      [] v[1] = "str" -> v[2]
      [] OTHER -> <<Tok("None")>>

\* Python truthiness, as `previous_hash or ...` uses it.
Truthy(v) ==
    CASE v[1] = "int" -> v[2] # 0
      [] v[1] = "str" -> v[2] # <<>>
      [] OTHER -> FALSE

\* json.dumps(tx, sort_keys=True): keys in sorted order amount, recipient, sender.
DumpsTx(tx) ==
    <<Tok("{"), Tok("amount")>> \o JsonScalar(tx.amount)
        \o <<Tok("recipient")>> \o JsonScalar(tx.recipient)
        \o <<Tok("sender")>> \o JsonScalar(tx.sender) \o <<Tok("}")>>

RECURSIVE DumpsTxs(_)
DumpsTxs(txs) == IF txs = <<>> THEN <<>> ELSE DumpsTx(Head(txs)) \o DumpsTxs(Tail(txs))

\* json.dumps of a block that leaves its transactions out.
DumpsWithoutTransactions(block) ==
    <<Tok("{"), Tok("index")>> \o Digits(block.index)
        \o <<Tok("previous_hash")>> \o JsonScalar(block.previous_hash)
        \o <<Tok("proof")>> \o JsonScalar(block.proof)
        \o <<Tok("timestamp")>> \o Digits(block.timestamp)
        \o <<Tok("}")>>

\* json.dumps(block, sort_keys=True).encode() of a block whose transactions
\* are given by value: keys in sorted order index, previous_hash, proof,
\* timestamp, transactions.
Dumps(block) ==
    <<Tok("{"), Tok("index")>> \o Digits(block.index)
        \o <<Tok("previous_hash")>> \o JsonScalar(block.previous_hash)
        \o <<Tok("proof")>> \o JsonScalar(block.proof)
        \o <<Tok("timestamp")>> \o Digits(block.timestamp)
        \o <<Tok("transactions"), Tok("[")>> \o DumpsTxs(block.transactions)
        \o <<Tok("]"), Tok("}")>>

\* ---------------------------------------------------------------- SHA-256
\* A stand-in digest of HexLen hexadecimal characters (for SHA-256's 64): a
\* multiplicative mix of the bytes, so that every byte and its position count.
\* The digest's alphabet is scaled with it: Base symbols for the 16 hexadecimal
\* ones, 0 standing for the character '0'.
HexLen == 6
Base == 4
Modulus == Base ^ HexLen
\* One byte b takes the digest h to (37 * h + b + 11) % Modulus: the
\* multiplier is larger than any byte, so that two byte strings of one length
\* differ in their digest unless the modulus folds them together.  Affine is
\* the composition <<a, c>> (h goes to a * h + c) of the steps of
\* bytes[lo..hi], computed by halves down to runs of at most three bytes.
RECURSIVE Affine(_, _, _)
Affine(bytes, lo, hi) ==
    IF hi = lo THEN <<37, bytes[lo] + 11>>
    ELSE IF hi = lo + 1
    THEN <<37 * 37, 37 * (bytes[lo] + 11) + bytes[hi] + 11>>
    ELSE IF hi = lo + 2
    THEN <<(37 * 37 * 37) % Modulus,
           (37 * 37 * (bytes[lo] + 11) + 37 * (bytes[lo + 1] + 11)
                + bytes[hi] + 11) % Modulus>>
    ELSE LET mid == (lo + hi) \div 2
             f == Affine(bytes, lo, mid)
             g == Affine(bytes, mid + 1, hi)
         IN  <<(g[1] * f[1]) % Modulus, (g[1] * f[2] + g[2]) % Modulus>>

Mix(h, bytes) ==
    IF bytes = <<>> THEN h
    ELSE LET f == Affine(bytes, 1, Len(bytes))
         IN  (f[1] * h + f[2]) % Modulus

\* The digest state hashlib.sha256 holds after the bytes given, from `state`.
Sha256Update(state, bytes) == Mix(state, bytes)
Sha256New == 7

\* hexdigest(): the digest's characters, most significant first.  The state
\* is first multiplied by an odd constant near Modulus / 1.618 (a bijection
\* of the states), so that the leading characters change with the last byte
\* hashed as they do with any other.
HexDigest(state) ==
    LET final == (state * 2531) % Modulus
    IN  [i \in 1..HexLen |-> (final \div (Base ^ (HexLen - i))) % Base]

\* hashlib.sha256(bytes).hexdigest()
Sha256Hex(bytes) == HexDigest(Sha256Update(Sha256New, bytes))

\* Blockchain.hash
Hash(block) == StrV(Sha256Hex(Dumps(block)))

\* The number of leading '0' characters valid_proof asks for: the sources'
\* 4 (basic_block, communication) and 6 (client_mining) of 64 characters,
\* scaled to 1 and 2 of HexLen.
LeadingZeroes(v) == IF v = "client_mining" THEN 2 ELSE 1

\* Blockchain.valid_proof, given the digest state after the first part of
\* guess = f'{block_string}{proof}'.encode(): block_string is a bytes object
\* and so formats as b'...'; the proof's characters follow.
GuessPrefix(block_string) ==
    Sha256Update(Sha256New, <<Tok("b'")>> \o block_string \o <<Tok("'")>>)

ValidProofFrom(v, prefix, proof) ==
    LET guess_hash == HexDigest(Sha256Update(prefix, FormatValue(proof)))
    IN  \A i \in 1..LeadingZeroes(v) : guess_hash[i] = 0

\* Blockchain.valid_proof(block_string, proof)
ValidProof(v, block_string, proof) ==
    ValidProofFrom(v, GuessPrefix(block_string), proof)

\* proof_of_work with its loop testing the proof after the one it returns:
\* `while not self.valid_proof(block_string, proof + 1)`.
ProofLoopTestsNext(v, prefix, proof) ==
    LET accepted == {p \in proof..MaxProof : ValidProofFrom(v, prefix, IntV(p + 1))}
    IN  IF accepted = {} THEN -1
        ELSE CHOOSE p \in accepted : \A q \in accepted : p <= q

\* proof_of_work with `proof += 1` once more after the loop has ended.
ProofLoopSkewed(v, prefix, proof) ==
    LET accepted == {p \in proof..MaxProof : ValidProofFrom(v, prefix, IntV(p))}
    IN  IF accepted = {} THEN -1
        ELSE (CHOOSE p \in accepted : \A q \in accepted : p <= q) + 1

\* Blockchain.proof_of_work's loop: proof = 0; while not valid_proof: proof += 1,
\* every guess over the same block_string (taken here as its digest state).
\* The loop returns the first proof, counting from `proof`, that valid_proof
\* accepts.  The search is cut at MaxProof; -1 says it is still running there.
ProofLoop(v, prefix, proof) ==
    LET accepted == {p \in proof..MaxProof : ValidProofFrom(v, prefix, IntV(p))}
    IN  IF accepted = {} THEN -1
        ELSE CHOOSE p \in accepted : \A q \in accepted : p <= q

\* proof_of_work on a given last block.
ProofOfWork(v, last_block) == ProofLoop(v, GuessPrefix(Dumps(last_block)), 0)

\* Blockchain.valid_chain's loop, from prev_block = chain[0] and the second
\* block on (positions are 1-based here).
RECURSIVE ValidChainLoop(_, _, _, _)
ValidChainLoop(v, ch, prev_block, current_index) ==
    IF current_index > Len(ch) THEN TRUE
    ELSE LET block == ch[current_index]
         IN  IF block.previous_hash # Hash(prev_block) THEN FALSE
             ELSE IF ~ValidProof(v, Dumps(prev_block), block.proof) THEN FALSE
             ELSE ValidChainLoop(v, ch, block, current_index + 1)

\* valid_chain that also holds the first block to the genesis values.
ValidChainChecksGenesis(v, ch) ==
    IF ch = <<>> THEN "IndexError"
    ELSE IF ch[1].previous_hash # IntV(1) \/ ch[1].proof # IntV(100) THEN "False"
    ELSE IF ValidChainLoop(v, ch, ch[1], 2) THEN "True" ELSE "False"

\* Blockchain.valid_chain: "IndexError" when chain[0] does not exist.
ValidChain(v, ch) ==
    IF ch = <<>> THEN "IndexError"
    ELSE IF ValidChainLoop(v, ch, ch[1], 2) THEN "True" ELSE "False"

\* ------------------------------------------------------------------ state
Threads == 1..NumThreads

VARIABLES
    variant,               \* which of the three programs runs
    chain,                 \* Blockchain.chain: blocks, their transactions a list reference
    heap,                  \* the list objects; heap[r] holds <<transaction, queue id>> entries
    current_transactions,  \* Blockchain.current_transactions: a list reference
    nodes,                 \* Blockchain.nodes
    now,                   \* the clock time() reads
    pc,                    \* where each request thread stands in its handler
    loc,                   \* each thread's local variables
    resp,                  \* the response each thread's last request got
    queued,                \* how many transactions were ever appended to a pool list
    returned,              \* per queue id, the index new_transaction returned (0: none)
    intake,                \* how many transaction-intake requests reached the ledger
    received,              \* the last request, if a block receipt: its block, how the view ended
    audit                  \* a chain handed to valid_chain and proof_of_work, and what they returned

vars == <<variant, chain, heap, current_transactions, nodes, now, pc, loc, resp,
          queued, returned, intake, received, audit>>

\* uuid4 of this node, and the mining reward of the mine handlers.
node_identifier == StrV(<<Tok("node")>>)
Reward == [sender |-> IntV(0), recipient |-> node_identifier, amount |-> IntV(1)]

NoTx == [sender |-> NullV, recipient |-> NullV, amount |-> NullV]
NoBlock == [index |-> 0, timestamp |-> 0, transactions |-> 0, proof |-> NullV,
            previous_hash |-> NullV]
NoResp == [status |-> 0, message |-> "", value |-> 0]
NoLoc == [op |-> "none", proof |-> NullV, block_string |-> <<>>, tx |-> NoTx,
          ref |-> 0, qid |-> 0, last_block_hash |-> NullV, block |-> NoBlock,
          pool |-> <<>>]

NoReceived == [block |-> NoBlock, branch |-> "", ended |-> ""]
NoAudit == [chain |-> <<>>, block |-> 0, field |-> "", tampered |-> <<>>,
            valid |-> "", valid_tampered |-> "", proof |-> -2]

Response(status, message, value) ==
    [status |-> status, message |-> message, value |-> value]
\* What Flask answers when a view raises or returns None.
ServerError == Response(500, "Internal Server Error", 0)

\* The transactions a list holds, in order.
ListTxs(r) == [i \in 1..Len(heap[r]) |-> heap[r][i].tx]
\* A block with its transactions by value, as json.dumps reads it.
Resolve(block) == [block EXCEPT !.transactions = ListTxs(block.transactions)]
LocalChain == [i \in 1..Len(chain) |-> Resolve(chain[i])]
\* Blockchain.last_block, where the chain is not empty.
LastBlock == Resolve(chain[Len(chain)])

\* create_genesis_block's dictionary (communication).
GenesisDict(r) ==
    [index |-> 1, timestamp |-> 0, transactions |-> r, proof |-> IntV(42),
     previous_hash |-> IntV(1)]

\* new_block numbering its blocks from len(self.chain), without the + 1.
BlockDictIndexFromZero(proof, previous_hash) ==
    [index |-> Len(chain),
     timestamp |-> now,
     transactions |-> current_transactions,
     proof |-> proof,
     previous_hash |-> IF Truthy(previous_hash) THEN previous_hash
                       ELSE Hash(LastBlock)]

\* new_block's dictionary: `previous_hash or self.hash(self.chain[-1])`.
BlockDict(proof, previous_hash) ==
    [index |-> Len(chain) + 1,
     timestamp |-> now,
     transactions |-> current_transactions,
     proof |-> proof,
     previous_hash |-> IF Truthy(previous_hash) THEN previous_hash
                       ELSE Hash(LastBlock)]

\* Blockchain.__init__ of basic_block and client_mining: the pool is list 1,
\* new_block(previous_hash=1, proof=100) puts it in the genesis block and
\* rebinds the pool to a fresh list.
InitMined ==
    /\ variant \in {"basic_block", "client_mining"}
    /\ heap = <<<<>>, <<>>>>
    /\ chain = <<[index |-> 1, timestamp |-> 1, transactions |-> 1,
                  proof |-> IntV(100), previous_hash |-> IntV(1)]>>
    /\ current_transactions = 2
    /\ now = 2

\* Blockchain.__init__ of communication: create_genesis_block builds the
\* dictionary (with a fresh list) and returns without appending it.
InitCommunication ==
    /\ variant = "communication"
    /\ heap = <<<<>>, <<>>>>
    /\ chain = <<>>
    /\ current_transactions = 1
    /\ now = 2

InitRest ==
    /\ nodes = {}
    /\ pc = [t \in Threads |-> "idle"]
    /\ loc = [t \in Threads |-> NoLoc]
    /\ resp = [t \in Threads |-> NoResp]
    /\ queued = 0
    /\ returned = <<>>
    /\ intake = 0
    /\ received = NoReceived

Init == (InitMined \/ InitCommunication) /\ InitRest /\ audit = NoAudit

\* --------------------------------------------------------------- requests
Str(c) == StrV(<<Tok(c)>>)
\* The JSON bodies POSTed to /transactions/new: the keys present and their values.
TxRequests ==
    { [keys |-> {"sender", "recipient", "amount"},
       sender |-> Str("alice"), recipient |-> Str("bob"), amount |-> IntV(5)],
      [keys |-> {"sender", "recipient", "amount"},
       sender |-> Str("bob"), recipient |-> Str("alice"), amount |-> IntV(3)],
      [keys |-> {"sender", "recipient"},
       sender |-> Str("alice"), recipient |-> Str("bob"), amount |-> NullV] }

\* The proofs a client POSTs to /mine: the one an honest miner finds for the
\* tip it sees, and wrong ones; a form value (client_mining) is a str or absent.
ClientProofs ==
    LET found == IF chain = <<>> THEN -1
                 ELSE ProofOfWork(variant, LastBlock)
        ints == {p \in {found, found + 1, 0} : p >= 0}
    IN  {StrV(Digits(p)) : p \in ints} \cup {NullV}
            \cup (IF variant = "communication" THEN {IntV(p) : p \in ints} ELSE {})

\* The mine requests under way.  A mine request is taken while the blocks
\* sealed and the blocks being mined stay within MaxChain.
Mining == Cardinality({t \in Threads : loc[t].op = "mine"})

\* A request starts on an idle thread; its locals die when it is answered.
Enter(t, l) == loc' = [loc EXCEPT ![t] = l]
Goto(t, label) == pc' = [pc EXCEPT ![t] = label]
Reply(t, r) ==
    /\ resp' = [resp EXCEPT ![t] = r]
    /\ pc' = [pc EXCEPT ![t] = "idle"]

\* ------------------------------------------------------------------- mine
\* basic_block mine(): proof = blockchain.proof_of_work(), which serializes
\* the last block once and searches on that snapshot.
MineProofOfWork(t) ==
    /\ pc[t] = "idle"
    /\ received' = NoReceived
    /\ variant = "basic_block"
    /\ Len(chain) + Mining < MaxChain
    /\ LET proof == ProofOfWork(variant, LastBlock)
       IN  /\ proof >= 0
           /\ Enter(t, [NoLoc EXCEPT !.op = "mine", !.proof = IntV(proof),
                                     !.block_string = Dumps(LastBlock),
                                     !.tx = Reward])
    /\ Goto(t, "nt_load")
    /\ resp' = [resp EXCEPT ![t] = NoResp]
    /\ UNCHANGED <<audit, variant, chain, heap, current_transactions, nodes, now,
                   queued, returned, intake>>

\* mine() testing that a proof was sent (`if proof:`) in place of valid_proof.
MineVerifyAnyProof(t) ==
    /\ pc[t] = "idle"
    /\ received' = NoReceived
    /\ variant \in {"client_mining", "communication"}
    /\ Len(chain) + Mining < MaxChain
    /\ \E proof \in ClientProofs :
        IF chain = <<>>
        THEN /\ Reply(t, ServerError)
             /\ UNCHANGED loc
        ELSE IF Truthy(proof)
        THEN /\ Enter(t, [NoLoc EXCEPT !.op = "mine", !.proof = proof,
                                       !.block_string = Dumps(LastBlock),
                                       !.tx = Reward])
             /\ Goto(t, "nt_load")
             /\ resp' = [resp EXCEPT ![t] = NoResp]
        ELSE /\ Reply(t, Response(IF variant = "client_mining" THEN 403 ELSE 200,
                                  "You provided an invalid proof.", 0))
             /\ UNCHANGED loc
    /\ UNCHANGED <<audit, variant, chain, heap, current_transactions, nodes, now,
                   queued, returned, intake>>

\* client_mining and communication mine(): the client's proof is checked
\* against the last block; an empty chain raises IndexError in last_block.
MineVerify(t) ==
    /\ pc[t] = "idle"
    /\ received' = NoReceived
    /\ variant \in {"client_mining", "communication"}
    /\ Len(chain) + Mining < MaxChain
    /\ LET block_string == IF chain = <<>> THEN <<>> ELSE Dumps(LastBlock)
           prefix == GuessPrefix(block_string)
       IN  \E proof \in ClientProofs :
            IF chain = <<>>
            THEN /\ Reply(t, ServerError)
                 /\ UNCHANGED loc
            ELSE IF ValidProofFrom(variant, prefix, proof)
            THEN /\ Enter(t, [NoLoc EXCEPT !.op = "mine", !.proof = proof,
                                           !.block_string = block_string,
                                           !.tx = Reward])
                 /\ Goto(t, "nt_load")
                 /\ resp' = [resp EXCEPT ![t] = NoResp]
            ELSE /\ Reply(t, Response(IF variant = "client_mining" THEN 403 ELSE 200,
                                      "You provided an invalid proof.", 0))
                 /\ UNCHANGED loc
    /\ UNCHANGED <<audit, variant, chain, heap, current_transactions, nodes, now,
                   queued, returned, intake>>

\* ------------------------------------------------------- transaction intake
\* The route with `any` for `all` in its check of the required fields.
NewTransactionRouteAnyField(t) ==
    /\ pc[t] = "idle"
    /\ received' = NoReceived
    /\ intake < MaxQueued
    /\ \E values \in TxRequests :
        IF {"sender", "recipient", "amount"} \cap values.keys = {}
        THEN /\ Reply(t, Response(400, "Missing Values", 0))
             /\ UNCHANGED <<loc, intake>>
        ELSE /\ Enter(t, [NoLoc EXCEPT !.op = "tx",
                             !.tx = [sender |-> values.sender,
                                     recipient |-> values.recipient,
                                     amount |-> values.amount]])
             /\ Goto(t, "nt_load")
             /\ resp' = [resp EXCEPT ![t] = NoResp]
             /\ intake' = intake + 1
    /\ UNCHANGED <<audit, variant, chain, heap, current_transactions, nodes, now,
                   queued, returned>>

\* The /transactions/new route up to its call of new_transaction.
NewTransactionRoute(t) ==
    /\ pc[t] = "idle"
    /\ received' = NoReceived
    /\ intake < MaxQueued
    /\ \E values \in TxRequests :
        IF ~({"sender", "recipient", "amount"} \subseteq values.keys)
        THEN /\ Reply(t, Response(400, "Missing Values", 0))
             /\ UNCHANGED <<loc, intake>>
        ELSE /\ Enter(t, [NoLoc EXCEPT !.op = "tx",
                             !.tx = [sender |-> values.sender,
                                     recipient |-> values.recipient,
                                     amount |-> values.amount]])
             /\ Goto(t, "nt_load")
             /\ resp' = [resp EXCEPT ![t] = NoResp]
             /\ intake' = intake + 1
    /\ UNCHANGED <<audit, variant, chain, heap, current_transactions, nodes, now,
                   queued, returned>>

\* new_transaction: self.current_transactions is loaded ...
NtLoad(t) ==
    /\ pc[t] = "nt_load"
    /\ loc' = [loc EXCEPT ![t].ref = current_transactions]
    /\ Goto(t, "nt_append")
    /\ UNCHANGED <<audit, variant, chain, heap, current_transactions, nodes, now, resp,
                   queued, returned, intake, received>>

\* ... and the transaction appended to that list.
NtAppend(t) ==
    /\ pc[t] = "nt_append"
    /\ heap' = [heap EXCEPT ![loc[t].ref] =
                    Append(@, [tx |-> loc[t].tx, qid |-> queued + 1])]
    /\ queued' = queued + 1
    /\ returned' = Append(returned, 0)
    /\ loc' = [loc EXCEPT ![t].qid = queued + 1]
    /\ Goto(t, "nt_return")
    /\ UNCHANGED <<audit, variant, chain, current_transactions, nodes, now, resp, intake,
                   received>>

\* return self.last_block['index'] + 1, and the caller's next statement: the
\* route answers 201, mine goes on to hash the last block.
NtReturn(t) ==
    /\ pc[t] = "nt_return"
    /\ IF chain = <<>>
       THEN /\ Reply(t, ServerError)
            /\ Enter(t, NoLoc)
            /\ UNCHANGED returned
       ELSE LET index == LastBlock.index + 1
            IN  /\ returned' = [returned EXCEPT ![loc[t].qid] = index]
                /\ IF loc[t].op = "tx"
                   THEN /\ Reply(t, Response(201, "Transaction will be added to Block",
                                             index))
                        /\ Enter(t, NoLoc)
                   ELSE /\ Goto(t, "hash")
                        /\ UNCHANGED <<loc, resp>>
    /\ UNCHANGED <<audit, variant, chain, heap, current_transactions, nodes, now,
                   queued, intake, received>>

\* mine(): last_block_hash = blockchain.hash(blockchain.last_block)
MineHash(t) ==
    /\ pc[t] = "hash"
    /\ loc' = [loc EXCEPT ![t].last_block_hash = Hash(LastBlock)]
    /\ Goto(t, "nb_build")
    /\ UNCHANGED <<audit, variant, chain, heap, current_transactions, nodes, now, resp,
                   queued, returned, intake, received>>

\* new_block: the block dictionary (loc.pool keeps, for the properties below,
\* what the pool held when new_block was called) ...
NbBuild(t) ==
    /\ pc[t] = "nb_build"
    /\ loc' = [loc EXCEPT ![t].block = BlockDict(loc[t].proof, loc[t].last_block_hash),
                          ![t].pool = heap[current_transactions]]
    /\ now' = now + 1
    /\ Goto(t, "nb_reset")
    /\ UNCHANGED <<audit, variant, chain, heap, current_transactions, nodes, resp,
                   queued, returned, intake, received>>

\* new_block without its reset of the pool.
NbResetMissing(t) ==
    /\ pc[t] = "nb_reset"
    /\ Goto(t, "nb_append")
    /\ UNCHANGED <<audit, variant, chain, heap, current_transactions, nodes, now, loc,
                   resp, queued, returned, intake, received>>

\* ... self.current_transactions = [] ...
NbReset(t) ==
    /\ pc[t] = "nb_reset"
    /\ heap' = Append(heap, <<>>)
    /\ current_transactions' = Len(heap) + 1
    /\ Goto(t, "nb_append")
    /\ UNCHANGED <<audit, variant, chain, nodes, now, loc, resp, queued, returned, intake, received>>

\* ... self.chain.append(block), and mine's answer.
NbAppend(t) ==
    /\ pc[t] = "nb_append"
    /\ chain' = Append(chain, loc[t].block)
    /\ Reply(t, Response(200, "New Block Forged", loc[t].block.index))
    /\ Enter(t, NoLoc)
    /\ UNCHANGED <<audit, variant, heap, current_transactions, nodes, now,
                   queued, returned, intake, received>>

\* --------------------------------------------------------- chain validity
\* The /chain_validity route: valid_chain on the node's own chain.
ChainValidity(t) ==
    /\ pc[t] = "idle"
    /\ received' = NoReceived
    /\ LET r == ValidChain(variant, LocalChain)
       IN  IF r = "IndexError" THEN Reply(t, ServerError)
           ELSE Reply(t, Response(200, r, 0))
    /\ UNCHANGED <<audit, variant, chain, heap, current_transactions, nodes, now, loc,
                   queued, returned, intake>>

\* ------------------------------------------------------------------ peers
\* urllib.parse.urlparse(address).netloc: what stands between '//' and the
\* next '/'; an address without '//' has an empty netloc.
Addresses ==
    { [scheme |-> "http", slashes |-> TRUE, host |-> "a:5000", path |-> ""],
      [scheme |-> "https", slashes |-> TRUE, host |-> "a:5000", path |-> "/chain"],
      [scheme |-> "http", slashes |-> TRUE, host |-> "b:5000", path |-> ""],
      [scheme |-> "http", slashes |-> TRUE, host |-> "c:5000", path |-> ""] }
\* register_node keeping the whole address instead of its netloc.
NetlocWholeAddress(address) ==
    address.scheme \o (IF address.slashes THEN "://" ELSE ":") \o address.host
        \o address.path
Netloc(address) == IF address.slashes THEN address.host ELSE ""

\* Blockchain.register_node
RegisterNode(address) == nodes \cup {Netloc(address)}

\* The /nodes/register route, with a list of one address.
RegisterNodes(t) ==
    /\ pc[t] = "idle"
    /\ received' = NoReceived
    /\ variant = "communication"
    /\ \E address \in Addresses : nodes' = RegisterNode(address)
    /\ Reply(t, Response(200, "New nodes have been added.", Cardinality(nodes')))
    /\ UNCHANGED <<audit, variant, chain, heap, current_transactions, now, loc,
                   queued, returned, intake>>

\* What the peers answer GET /chain with: a:5000 is a node of this program
\* that has mined on its genesis block and is ahead, b:5000 offers a chain as
\* long with a transaction amount changed after the fact, c:5000 has its
\* genesis block only.
RECURSIVE PeerChain(_)
PeerChain(n) ==
    IF n = 1 THEN <<[GenesisDict(0) EXCEPT !.transactions = <<>>]>>
    ELSE LET ch == PeerChain(n - 1)
             tip == ch[n - 1]
         IN  Append(ch, [index |-> n, timestamp |-> 10 * n,
                         transactions |-> <<Reward>>,
                         proof |-> IntV(ProofOfWork("communication", tip)),
                         previous_hash |-> Hash(tip)])
Tampered(ch) ==
    [ch EXCEPT ![2].transactions = <<[Reward EXCEPT !.amount = IntV(9)]>>]
LongerChain == PeerChain(MaxChain + 2)
TamperedChain == Tampered(LongerChain)
ShortChain == PeerChain(1)
PeerChainOf(node) ==
    CASE node = "a:5000" -> LongerChain
      [] node = "b:5000" -> TamperedChain
      [] OTHER -> ShortChain

\* ---------------------------------------------------------- block receipt
\* The blocks a peer may POST to /block/new, around the local tip.
WrongHash(h) == StrV([i \in 1..HexLen |-> IF i = HexLen THEN (h[2][i] + 1) % Base
                                          ELSE h[2][i]])
\* The block the peers take for this node's tip: its last block, or, while the
\* chain holds nothing, the genesis block create_genesis_block builds.
PeerTip ==
    IF chain = <<>> THEN [GenesisDict(0) EXCEPT !.transactions = <<>>]
    ELSE LastBlock
BroadcastBlocks ==
    LET tip == PeerTip
        found == ProofOfWork(variant, tip)
        next == [index |-> tip.index + 1, timestamp |-> now,
                 transactions |-> <<>>, proof |-> IntV(found),
                 previous_hash |-> Hash(tip)]
    IN  IF found < 0 THEN {}
        ELSE { next,
               [next EXCEPT !.previous_hash = WrongHash(Hash(tip))],
               [next EXCEPT !.proof = IntV(found + 1)],
               [next EXCEPT !.index = tip.index + 2],
               [next EXCEPT !.index = tip.index] }

\* receive_block's branches, and how the view ends in each: blockchain.add
\* is not a method of Blockchain (AttributeError); the other branches `pass`
\* and the view returns None.
ReceiveBranch(new_block) ==
    IF chain = <<>> THEN "last_block"
    ELSE LET old_block == LastBlock
         IN  IF new_block.index = old_block.index + 1
             THEN IF new_block.previous_hash = Hash(old_block)
                  THEN IF ValidProof(variant, Dumps(old_block), new_block.proof)
                       THEN "add"
                       ELSE "bad proof"
                  ELSE "hashes don't match"
             ELSE "consensus"
ReceiveEnded(branch) ==
    CASE branch = "last_block" -> "IndexError"
      [] branch = "add" -> "AttributeError"
      [] OTHER -> "None"

\* The /block/new route.  Flask answers 500 to a view that raises and to a
\* view that returns None alike.
ReceiveBlock(t) ==
    /\ pc[t] = "idle"
    /\ variant = "communication"
    /\ \E new_block \in BroadcastBlocks :
        LET branch == ReceiveBranch(new_block)
        IN  /\ received' = [block |-> new_block, branch |-> branch,
                            ended |-> ReceiveEnded(branch)]
            /\ Reply(t, ServerError)
    /\ UNCHANGED <<audit, variant, chain, heap, current_transactions, nodes, now, loc,
                   queued, returned, intake>>

\* ---------------------------------------------------------- specifications
\* The basic_block and client_mining servers under threads: mining and
\* transaction intake interleave statement by statement.
ThreadedInit == InitMined /\ InitRest /\ audit = NoAudit
ThreadedNext ==
    \E t \in Threads :
        \/ MineProofOfWork(t)
        \/ MineVerify(t)
        \/ NewTransactionRoute(t)
        \/ NtLoad(t)
        \/ NtAppend(t)
        \/ NtReturn(t)
        \/ MineHash(t)
        \/ NbBuild(t)
        \/ NbReset(t)
        \/ NbAppend(t)
ThreadedSpec == ThreadedInit /\ [][ThreadedNext]_vars

\* One request at a time: a single thread serves them all.
Next ==
    \/ MineProofOfWork(1)
    \/ MineVerify(1)
    \/ NewTransactionRoute(1)
    \/ NtLoad(1)
    \/ NtAppend(1)
    \/ NtReturn(1)
    \/ MineHash(1)
    \/ NbBuild(1)
    \/ NbReset(1)
    \/ NbAppend(1)
    \/ ChainValidity(1)
    \/ RegisterNodes(1)
    \/ ReceiveBlock(1)
Spec == Init /\ [][Next]_vars

\* ------------------------------------------------- valid_chain on any chain
\* valid_chain and proof_of_work as functions: the chains handed to them are
\* chains this program mines (a client's transaction and the reward in every
\* block after the first), and the same chains with one field of one block
\* changed afterwards.
MinedGenesis ==
    [index |-> 1, timestamp |-> 1, transactions |-> <<>>, proof |-> IntV(100),
     previous_hash |-> IntV(1)]
\* <<>> where the search for a proof does not end within MaxProof.
RECURSIVE MinedChain(_, _)
MinedChain(v, n) ==
    IF n = 1 THEN <<MinedGenesis>>
    ELSE LET ch == MinedChain(v, n - 1)
         IN  IF ch = <<>> THEN <<>>
             ELSE LET tip == ch[n - 1]
                      found == ProofOfWork(v, tip)
                  IN  IF found < 0 THEN <<>>
                      ELSE Append(ch,
                             [index |-> n, timestamp |-> n,
                              transactions |->
                                  <<[sender |-> Str("alice"), recipient |-> Str("bob"),
                                     amount |-> IntV(5)], Reward>>,
                              proof |-> IF v = "client_mining"
                                        THEN StrV(Digits(found)) ELSE IntV(found),
                              previous_hash |-> Hash(tip)])

\* One character of a value changed: the last digit of a number or of a
\* string of digits, the last character of a digest.
NextDigit(d) == (d + 1) % 10
TamperValue(value) ==
    IF value[1] = "int" THEN IntV(10 * (value[2] \div 10) + NextDigit(value[2] % 10))
    ELSE IF Len(value[2]) = HexLen THEN WrongHash(value)
    ELSE StrV([i \in 1..Len(value[2]) |->
                  IF i = Len(value[2]) THEN NextDigit(value[2][i]) ELSE value[2][i]])
TamperBlock(block, field) ==
    CASE field = "amount" ->
            [block EXCEPT !.transactions[1].amount = TamperValue(@)]
      [] field = "proof" -> [block EXCEPT !.proof = TamperValue(@)]
      [] OTHER -> [block EXCEPT !.previous_hash = TamperValue(@)]
TamperChain(ch, i, field) == [ch EXCEPT ![i] = TamperBlock(@, field)]

AuditTampering(ch, i) ==
    { [NoAudit EXCEPT !.chain = ch, !.block = i, !.field = f,
                      !.tampered = TamperChain(ch, i, f)] :
        f \in IF ch[i].transactions = <<>> THEN {"proof", "previous_hash"}
              ELSE {"amount", "proof", "previous_hash"} }
AuditInputs(v) ==
    UNION { UNION { AuditTampering(MinedChain(v, n), i) : i \in 1..n } :
            n \in {m \in 1..MaxChain : MinedChain(v, m) # <<>>} }

AuditInit ==
    /\ InitMined
    /\ InitRest
    /\ audit \in AuditInputs(variant)

\* valid_chain(chain) on the chain as it was mined ...
AuditValidChain ==
    /\ audit.valid = ""
    /\ audit' = [audit EXCEPT !.valid = ValidChain(variant, audit.chain)]
    /\ UNCHANGED <<variant, chain, heap, current_transactions, nodes, now, pc,
                   loc, resp, queued, returned, intake, received>>

\* ... and on the chain with the field changed.
AuditValidChainTampered ==
    /\ audit.valid_tampered = ""
    /\ audit' = [audit EXCEPT !.valid_tampered = ValidChain(variant, audit.tampered)]
    /\ UNCHANGED <<variant, chain, heap, current_transactions, nodes, now, pc,
                   loc, resp, queued, returned, intake, received>>

\* proof_of_work (basic_block) with the mined chain's last block for last_block.
AuditProofOfWork ==
    /\ variant = "basic_block"
    /\ audit.proof = -2
    /\ audit' = [audit EXCEPT !.proof =
                    ProofOfWork(variant, audit.chain[Len(audit.chain)])]
    /\ UNCHANGED <<variant, chain, heap, current_transactions, nodes, now, pc,
                   loc, resp, queued, returned, intake, received>>

AuditNext ==
    \/ AuditValidChain
    \/ AuditValidChainTampered
    \/ AuditProofOfWork
AuditSpec == AuditInit /\ [][AuditNext]_vars

\* ------------------------------------------------------------ properties
\* Whether list r holds the transaction queued as number q, and how often.
Holds(r, q) == \E i \in 1..Len(heap[r]) : heap[r][i].qid = q
Count(r, q) == Cardinality({i \in 1..Len(heap[r]) : heap[r][i].qid = q})

\* C1: on the ledgers that are built by sealing (basic_block, client_mining),
\* after any sequential run of transaction intake and mining requests,
\* valid_chain of the local chain returns True: every block after the first
\* names the hash of its predecessor and carries a proof that valid_proof
\* accepts against the predecessor's serialization.
ChainStaysValid ==
    variant \in {"basic_block", "client_mining"} =>
        /\ ValidChain(variant, LocalChain) = "True"
        /\ \A i \in 2..Len(chain) :
            /\ chain[i].previous_hash = Hash(LocalChain[i - 1])
            /\ ValidProof(variant, Dumps(LocalChain[i - 1]), chain[i].proof)

\* Two blocks were sealed on the genesis block, one of them with a client's
\* transaction next to the reward.
ChainStaysValidWitness ==
    /\ variant \in {"basic_block", "client_mining"}
    /\ Len(chain) >= 3
    /\ \E i \in 2..Len(chain) : Len(heap[chain[i].transactions]) >= 2
    /\ pc[1] = "idle"

\* C2: in every variant the chain is never empty and its first entry is the
\* genesis block: index 1, the fixed proof, the sentinel previous_hash 1, no
\* transactions.
GenesisAlwaysFirst ==
    /\ chain # <<>>
    /\ chain[1].index = 1
    /\ chain[1].proof = (IF variant = "communication" THEN IntV(42) ELSE IntV(100))
    /\ chain[1].previous_hash = IntV(1)
    /\ heap[chain[1].transactions] = <<>>

\* C5: every new_block call leaves the pool empty, and the block it appended
\* holds exactly what the pool held when it was called, in that order.
SealDrainsPool ==
    [][\A t \in Threads :
          (pc[t] = "nb_append" /\ pc'[t] = "idle") =>
              /\ Len(chain') = Len(chain) + 1
              /\ heap'[chain'[Len(chain')].transactions] = loc[t].pool
              /\ heap'[current_transactions'] = <<>>]_vars

\* A mine request has just sealed a block of a client's transaction and the
\* reward, and the pool is empty.
SealDrainsPoolWitness ==
    /\ pc[1] = "idle"
    /\ resp[1].message = "New Block Forged"
    /\ Len(heap[chain[Len(chain)].transactions]) >= 2
    /\ heap[current_transactions] = <<>>

\* C6: when new_transaction returned k, the next block sealed after the call
\* has index k and holds the transaction: until then the chain has k - 1
\* blocks and the transaction waits (in the pool, or in the block new_block is
\* about to append), afterwards it is in the block at position k, of index k.
ReturnedIndexHoldsTransaction ==
    \A q \in 1..Len(returned) :
        returned[q] > 0 =>
            LET k == returned[q]
            IN  IF Len(chain) >= k
                THEN /\ chain[k].index = k
                     /\ Holds(chain[k].transactions, q)
                ELSE /\ Len(chain) = k - 1
                     /\ \/ Holds(current_transactions, q)
                        \/ \E t \in Threads :
                            /\ pc[t] = "nb_append"
                            /\ loc[t].block.index = k
                            /\ Holds(loc[t].block.transactions, q)

\* A client's transaction was answered with an index and sits in the sealed
\* block of that index.
ReturnedIndexWitness ==
    \E q \in 1..Len(returned) :
        /\ returned[q] > 1
        /\ Len(chain) >= returned[q]
        /\ \E i \in 1..Len(heap[chain[returned[q]].transactions]) :
            LET e == heap[chain[returned[q]].transactions][i]
            IN  e.qid = q /\ e.tx.sender # IntV(0)

\* C3: under threads, a block is appended only while the block its proof was
\* found or verified against is still the last block: a miner whose snapshot
\* of the tip is stale by the time it seals appends nothing.
SealOnlyOnSnapshotTip ==
    [][\A t \in Threads :
          (pc[t] = "nb_append" /\ chain' # chain) =>
              loc[t].block_string = Dumps(LastBlock)]_vars

\* How many of the places a transaction can be in hold the one queued as
\* number q: the pool, the sealed blocks, the blocks new_block is about to
\* append.
Places(q) ==
    Count(current_transactions, q)
        + Cardinality({i \in 1..Len(chain) : Holds(chain[i].transactions, q)})
        + Cardinality({t \in Threads : /\ pc[t] = "nb_append"
                                       /\ Holds(loc[t].block.transactions, q)})

\* C4: under threads, every transaction ever queued is in exactly one place,
\* once: in the pool or in one block (sealed, or being sealed by the new_block
\* call that drained it).
NoTransactionLostOrDuplicated ==
    \A q \in 1..queued :
        /\ Places(q) = 1
        /\ \A i \in 1..Len(chain) : Count(chain[i].transactions, q) <= 1

\* The case of a block receipt: where the block posted to /block/new stands
\* against the tip.
ReceiptCase ==
    LET new_block == received.block
        tip == PeerTip
    IN  IF new_block = NoBlock THEN "none"
        ELSE IF new_block.index # tip.index + 1 THEN "resync"
        ELSE IF /\ new_block.previous_hash = Hash(tip)
                /\ ValidProof(variant, Dumps(tip), new_block.proof)
             THEN "accept"
        ELSE "reject"

\* C7: a received block of index tip + 1, with the hash of the tip and a proof
\* valid against the tip, is answered Accepted and is the last block of the
\* chain afterwards.
ReceivedBlockAccepted ==
    ReceiptCase = "accept" =>
        /\ resp[1] = Response(200, "Block Accepted", 0)
        /\ chain # <<>>
        /\ LastBlock = received.block

\* C8: a received block of index tip + 1 with a wrong hash or a wrong proof
\* is answered Rejected (an answer of the view, other than Accepted) and is
\* not appended.
ReceivedBlockRejected ==
    ReceiptCase = "reject" =>
        /\ resp[1].status # 500
        /\ resp[1].message # "Block Accepted"
        /\ \A i \in 1..Len(chain) : LocalChain[i] # received.block

\* C9: a received block whose index is not tip + 1 is answered NeedsResync,
\* an answer of the view that is neither the one of an accepted nor the one
\* of a rejected block, and the chain holds what it held.
ReceivedBlockNeedsResync ==
    ReceiptCase = "resync" =>
        /\ resp[1] # ServerError
        /\ resp[1].message # "Block Accepted"
        /\ \A i \in 1..Len(chain) : LocalChain[i] # received.block

\* The chains the registered peers offer that are longer than the local chain
\* and pass valid_chain.
BetterChains ==
    {ch \in {PeerChainOf(n) : n \in nodes} :
        /\ Len(ch) > Len(chain)
        /\ ValidChain(variant, ch) = "True"}

\* C10: when the consensus process has run (a block whose index is not
\* tip + 1 was received) and a registered peer offers a valid chain longer
\* than the local one, the local chain is the longest such chain.
ConsensusAdoptsLongestValid ==
    (ReceiptCase = "resync" /\ BetterChains # {}) =>
        /\ LocalChain \in BetterChains
        /\ \A ch \in BetterChains : Len(ch) <= Len(chain)

\* C11: when the consensus process has run (a block whose index is not
\* tip + 1 was received) and no registered peer offers a valid chain longer
\* than the local one, the request is answered (the process reports that it
\* replaced nothing) and the local chain is what it was.
ConsensusKeepsLocalChain ==
    [][(ReceiptCase' = "resync" /\ BetterChains' = {}) =>
          /\ chain' = chain
          /\ resp'[1] # ServerError]_vars

\* Both audits of the chain handed in have run.
Audited == audit.valid # "" /\ audit.valid_tampered # ""

\* C12 as stated: on a chain valid_chain accepts, changing the amount, the
\* proof or the previous_hash of any one block, the first and the last
\* included, makes valid_chain return False.
TamperAlwaysDetected ==
    (Audited /\ audit.valid = "True") => audit.valid_tampered = "False"

\* C12 amended: the change is detected in every block that has a successor
\* (the successor's previous_hash no longer names its hash), and a changed
\* previous_hash in every block after the first; a changed amount in the last
\* block is not.
TamperDetectedBySuccessor ==
    (Audited /\ audit.valid = "True") =>
        /\ (\/ audit.block < Len(audit.chain)
            \/ (audit.block > 1 /\ audit.field = "previous_hash"))
               => audit.valid_tampered = "False"
        /\ (audit.block = Len(audit.chain) /\ audit.field = "amount")
               => audit.valid_tampered = "True"

\* A valid chain of three blocks had the amount in its second block changed,
\* and valid_chain refused it.
TamperDetectedWitness ==
    /\ audit.valid = "True"
    /\ audit.valid_tampered = "False"
    /\ Len(audit.chain) >= 3
    /\ audit.block = 2
    /\ audit.field = "amount"

\* The first block's proof or previous_hash is what was changed.
GenesisChanged == audit.block = 1 /\ audit.field \in {"proof", "previous_hash"}

\* C13 as stated: two chains that differ only in the first block's
\* previous_hash or proof get the same answer from valid_chain.
GenesisNeverCounts ==
    (Audited /\ GenesisChanged) => audit.valid = audit.valid_tampered

\* C13 amended: valid_chain holds the first block's previous_hash and proof
\* to nothing, so a chain of the genesis block alone is valid whatever they
\* are; on a longer chain they count through the second block's
\* previous_hash, and changing them in a valid chain makes it invalid.
GenesisCountsThroughSuccessor ==
    (Audited /\ GenesisChanged) =>
        IF Len(audit.chain) = 1
        THEN audit.valid = "True" /\ audit.valid_tampered = "True"
        ELSE audit.valid = "True" => audit.valid_tampered = "False"

\* A chain of the genesis block alone, with another proof, is still valid.
GenesisAloneWitness ==
    /\ Audited
    /\ Len(audit.chain) = 1
    /\ audit.field = "proof"
    /\ audit.tampered[1].proof # MinedGenesis.proof
    /\ audit.valid_tampered = "True"

\* C16: the proof proof_of_work returns for a last block is one valid_proof
\* accepts against that block's serialization.
FoundProofIsValid ==
    audit.proof >= 0 =>
        ValidProof(variant, Dumps(audit.chain[Len(audit.chain)]), IntV(audit.proof))

\* proof_of_work has searched past 0 on a mined block and returned.
FoundProofWitness ==
    /\ audit.proof > 0
    /\ Len(audit.chain) >= 2

\* C14: the chain only grows and its blocks never change: every block of the
\* chain is, after any step, at the same position with the same fields and
\* the same transactions.
ChainIsAppendOnly ==
    [][/\ Len(chain') >= Len(chain)
       /\ \A i \in 1..Len(chain) : LocalChain'[i] = LocalChain[i]]_vars

\* C15: every block a mine request appended ends with the reward transaction
\* of sender "0" (the string), this node for recipient and amount 1.
SealedBlockEndsWithReward ==
    \A i \in 2..Len(chain) :
        LET txs == LocalChain[i].transactions
        IN  /\ txs # <<>>
            /\ txs[Len(txs)] = [sender |-> StrV(<<0>>), recipient |-> node_identifier,
                                amount |-> IntV(1)]

\* C19: every block's index is its position in the chain, counting from 1.
IndexIsPosition == \A i \in 1..Len(chain) : chain[i].index = i

\* C20: in every variant last_block returns the block of highest index and
\* valid_chain on the node's own chain returns a boolean; neither raises.
LastBlockAndWalkNeverFail ==
    /\ chain # <<>>
    /\ \A i \in 1..Len(chain) : chain[i].index <= LastBlock.index
    /\ ValidChain(variant, LocalChain) \in {"True", "False"}

\* The transactions in the ledger's lists all have their three fields.
LedgerHoldsWholeTransactions ==
    \A r \in 1..Len(heap) : \A i \in 1..Len(heap[r]) :
        /\ heap[r][i].tx.sender # NullV
        /\ heap[r][i].tx.recipient # NullV
        /\ heap[r][i].tx.amount # NullV

\* C17: a request to /transactions/new that lacks sender, recipient or amount
\* never reaches the ledger, and the step that answers it with the
\* validation error (400) leaves the pool and the chain as they were.
MissingFieldsRejected ==
    /\ []LedgerHoldsWholeTransactions
    /\ [][resp'[1].status = 400 =>
            /\ chain' = chain
            /\ heap' = heap
            /\ current_transactions' = current_transactions
            /\ intake' = intake]_vars

\* A request with a field missing was answered 400 while a transaction
\* waited in the pool.
MissingFieldsWitness ==
    /\ resp[1] = Response(400, "Missing Values", 0)
    /\ pc[1] = "idle"
    /\ heap[current_transactions] # <<>>

\* C18: the peer set holds network locations only, so never two entries for
\* one host:port, and registering an address whose host:port it holds (with
\* whatever scheme and path) leaves it as it is.
RegisterIsIdempotent ==
    /\ nodes \subseteq {address.host : address \in Addresses}
    /\ \A address \in Addresses :
        address.host \in nodes => RegisterNode(address) = nodes

\* Peers were registered, a:5000 among them, which two of the addresses name.
RegisterWitness ==
    /\ "a:5000" \in nodes
    /\ Cardinality(nodes) >= 2
    /\ resp[1].message = "New nodes have been added."

\* C21: a new_transaction call that ended in an error left nothing in the
\* pool: every transaction in the pool whose call is over was answered with
\* an index.
FailedCallLeavesNoTransaction ==
    \A q \in 1..queued :
        (/\ Holds(current_transactions, q)
         /\ \A t \in Threads : loc[t].qid # q)
            => returned[q] > 0

\* The mine requests under way in client_mining and communication hold a
\* proof that valid_proof accepted against the last block they read.
OnlyValidProofsMine ==
    \A t \in Threads :
        (loc[t].op = "mine" /\ variant # "basic_block") =>
            ValidProof(variant, loc[t].block_string, loc[t].proof)

\* C22: a client's proof that valid_proof does not accept against the last
\* block never gets as far as the reward or a block, and the step that
\* answers it (403 with 'You provided an invalid proof.'; on the chain of the
\* communication variant, which has no last block, the server's error)
\* answers otherwise than a success and leaves the chain and the pool as
\* they were.
InvalidProofChangesNothing ==
    /\ []OnlyValidProofsMine
    /\ [][(\/ resp'[1].message = "You provided an invalid proof."
           \/ (variant = "communication" /\ pc[1] = "idle" /\ resp'[1] = ServerError))
          => /\ resp'[1].status # 200 \/ resp'[1].message # "New Block Forged"
             /\ chain' = chain
             /\ heap' = heap
             /\ current_transactions' = current_transactions
             /\ queued' = queued]_vars

\* client_mining refused a proof with 403 on a chain that had been mined on,
\* while a transaction waited in the pool.
InvalidProofWitness ==
    /\ variant = "client_mining"
    /\ resp[1] = Response(403, "You provided an invalid proof.", 0)
    /\ pc[1] = "idle"
    /\ Len(chain) >= 2
    /\ heap[current_transactions] # <<>>

====
